---- MODULE Spec2Model ----
(***************************************************************************)
(* teamscale-timestamp: one run of main(), which resolves a branch and a   *)
(* timestamp from SVN, the CI environment, Git and the TFS REST API and    *)
(* prints "<branch>:<timestamp>".                                          *)
(*                                                                         *)
(* Representation.  Option<T> is a sequence of length 0 (None) or 1        *)
(* (Some).  A string whose content the program inspects (stdout of a       *)
(* subprocess, a URL, a header) is a Text: a sequence of tokens, each a    *)
(* TLA+ string; "/" , "\n" and " " are tokens of their own.  Flatten turns *)
(* a Text into the string it spells.  Everything the outside world answers *)
(* (subprocess outcomes, environment lookups, the HTTP answer, the file    *)
(* write) is chosen with \E in the step that asks for it.                  *)
(***************************************************************************)
EXTENDS Integers, Sequences, FiniteSets, TLC

VARIABLES
    pc,             \* position of main()
    args,           \* the parsed command line (clap matches)
    svn_branch,     \* guess_branch: result of branch_from_svn()
    env_branch,     \* guess_branch: result of branch_from_environment()
    git_branch,     \* guess_branch: result of guess_branch_from_git()
    opt_branch,     \* main: opt_branch
    svn_timestamp,  \* guess_timestamp: svn_timestamp
    git_timestamp,  \* guess_timestamp: git_timestamp
    tfs_timestamp,  \* guess_timestamp: tfs_timestamp
    opt_timestamp,  \* main: opt_timestamp
    tfs_result,     \* the TfsResult of the last Tfs::timestamp_or_error call
    ran,            \* command lines the last step ran as subprocesses
    lookups,        \* environment lookups the last step made
    logged,         \* messages the last step passed to Logger::log
    requests,       \* every HTTP request sent so far in the run
    response,       \* the HTTP answer the last request got, if any
    stdout_token,   \* tokens println!-ed by output()
    revision_txt,   \* content written to the --revision-txt file
    panic,          \* the panic that ended the run, if any
    input,          \* a function called on its own: its name and argument
    output          \* ... and what it returned

vars == <<pc, args, svn_branch, env_branch, git_branch, opt_branch,
          svn_timestamp, git_timestamp, tfs_timestamp, opt_timestamp,
          tfs_result, ran, lookups, logged, requests, response,
          stdout_token, revision_txt, panic, input, output>>

-----------------------------------------------------------------------------
(* Option, Result and Text                                                  *)

None == <<>>
Some(v) == <<v>>
IsSome(o) == o # <<>>
Unwrap(o) == o[1]

\* An or that prefers its argument to the receiver.
Or_argument_first(a, b) == IF IsSome(b) THEN b ELSE a

\* Option::or: the argument is an already evaluated value.
Or(a, b) == IF IsSome(a) THEN a ELSE b

Ok(v) == [ok |-> TRUE, val |-> v]
Err(e) == [ok |-> FALSE, err |-> e]

Whitespace == {" ", "\n", "\t"}

RECURSIVE Flatten(_)
Flatten(text) == IF text = <<>> THEN "" ELSE Head(text) \o Flatten(Tail(text))

RECURSIVE TrimStart(_)
TrimStart(text) ==
    IF text # <<>> /\ Head(text) \in Whitespace THEN TrimStart(Tail(text)) ELSE text

RECURSIVE TrimEnd(_)
TrimEnd(text) ==
    IF text # <<>> /\ text[Len(text)] \in Whitespace
    THEN TrimEnd(SubSeq(text, 1, Len(text) - 1))
    ELSE text

\* str::trim
Trim(text) == TrimEnd(TrimStart(text))

\* str::contains, for a needle that is one token
Contains(text, needle) == \E i \in DOMAIN text : text[i] = needle

-----------------------------------------------------------------------------
(* utils.rs: run                                                            *)

\* What the operating system can answer to Command::output(): the program
\* cannot be started, it exits with a code, and its stdout is valid UTF-8 or
\* not.
Spawned(code, stdout) == [kind |-> "exited", code |-> code, utf8 |-> TRUE, stdout |-> stdout]
SpawnError == [kind |-> "spawn_error", code |-> 0, utf8 |-> TRUE, stdout |-> <<>>]
NotUtf8 == [kind |-> "exited", code |-> 0, utf8 |-> FALSE, stdout |-> <<>>]

\* utils::run.  ret is the Result<String, String>; panicked is the
\* from_utf8(..).unwrap() on a stdout that is not UTF-8.
run(command_line, outcome) ==
    IF outcome.kind = "spawn_error"
    THEN [panicked |-> FALSE, ret |-> Err(command_line \o " failed: No such file or directory")]
    ELSE IF outcome.code # 0
    THEN [panicked |-> FALSE,
          ret |-> Err(command_line \o " failed with exit code " \o ToString(outcome.code))]
    ELSE IF ~outcome.utf8
    THEN [panicked |-> TRUE, ret |-> Err("called Result::unwrap() on an Err value: Utf8Error")]
    ELSE [panicked |-> FALSE, ret |-> Ok(outcome.stdout)]

\* Svn::svn and Git::git: log the command line, run it, log a failure.
\* ret is the Option<String> (a Text once present).
vcs_command(command_line, outcome) ==
    LET r == run(command_line, outcome)
    IN  [panicked |-> r.panicked,
         ran |-> <<command_line>>,
         logged |-> <<"Running " \o command_line>>
                    \o (IF r.ret.ok \/ r.panicked THEN <<>> ELSE <<r.ret.err>>),
         ret |-> IF r.ret.ok THEN Some(r.ret.val) ELSE None]

-----------------------------------------------------------------------------
(* svn.rs                                                                   *)

\* The capture of (?P<branch>[^/]+) starting at token i: every token up to
\* the next "/" or the end of the text.
RECURSIVE SegmentFrom(_, _)
SegmentFrom(url, i) ==
    IF i > Len(url) \/ url[i] = "/" THEN "" ELSE url[i] \o SegmentFrom(url, i + 1)

\* The regex /(branches|tags)/(?P<branch>[^/]+)|/(?P<trunk>trunk)(/|$) tried
\* at token i.  $ matches at the end of the text only.
MatchBranchAt(url, i) ==
    /\ i + 3 <= Len(url)
    /\ url[i] = "/"
    /\ url[i + 1] \in {"branches", "tags"}
    /\ url[i + 2] = "/"
    /\ url[i + 3] # "/"

MatchTrunkAt(url, i) ==
    /\ i + 1 <= Len(url)
    /\ url[i] = "/"
    /\ url[i + 1] = "trunk"
    /\ (i + 1 = Len(url) \/ url[i + 2] = "/")

\* Regex::captures: the leftmost position where the pattern matches.
RECURSIVE CapturesFrom(_, _)
CapturesFrom(url, i) ==
    IF i > Len(url) THEN None
    ELSE IF MatchBranchAt(url, i) THEN Some(SegmentFrom(url, i + 3))
    ELSE IF MatchTrunkAt(url, i) THEN Some("trunk")
    ELSE CapturesFrom(url, i + 1)

extract_branch_from_url(url) == CapturesFrom(url, 1)

\* The fields a well-formed RFC 3339 literal spells; off is the UTC offset
\* in seconds.  A literal outside this table is not RFC 3339.
Rfc3339Fields(literal) ==
    CASE literal = "2019-08-06T14:13:34.879966Z" ->
            Some([y |-> 2019, mo |-> 8, d |-> 6, h |-> 14, mi |-> 13, s |-> 34,
                  micros |-> 879966, off |-> 0])
      [] literal = "2019-03-10T15:27:14.803Z" ->
            Some([y |-> 2019, mo |-> 3, d |-> 10, h |-> 15, mi |-> 27, s |-> 14,
                  micros |-> 803000, off |-> 0])
      [] literal = "2019-03-10T15:27:14.003-01:00" ->
            Some([y |-> 2019, mo |-> 3, d |-> 10, h |-> 15, mi |-> 27, s |-> 14,
                  micros |-> 3000, off |-> -3600])
      [] literal = "2019-03-10T15:27:14.003Z" ->
            Some([y |-> 2019, mo |-> 3, d |-> 10, h |-> 15, mi |-> 27, s |-> 14,
                  micros |-> 3000, off |-> 0])
      [] literal = "2019-03-10T15:27:14.803-01:00" ->
            Some([y |-> 2019, mo |-> 3, d |-> 10, h |-> 15, mi |-> 27, s |-> 14,
                  micros |-> 803000, off |-> -3600])
      [] literal = "2019-03-10T15:27:14+05:30" ->
            Some([y |-> 2019, mo |-> 3, d |-> 10, h |-> 15, mi |-> 27, s |-> 14,
                  micros |-> 0, off |-> 19800])
      [] literal = "1960-01-01T00:00:00Z" ->
            Some([y |-> 1960, mo |-> 1, d |-> 1, h |-> 0, mi |-> 0, s |-> 0,
                  micros |-> 0, off |-> 0])
      [] literal = "1969-12-31T23:59:59.500Z" ->
            Some([y |-> 1969, mo |-> 12, d |-> 31, h |-> 23, mi |-> 59, s |-> 59,
                  micros |-> 500000, off |-> 0])
      [] literal = "2016-12-31T23:59:60.500Z" ->
            Some([y |-> 2016, mo |-> 12, d |-> 31, h |-> 23, mi |-> 59, s |-> 60,
                  micros |-> 500000, off |-> 0])
      [] literal = "1970-01-01T00:00:60.500Z" ->
            Some([y |-> 1970, mo |-> 1, d |-> 1, h |-> 0, mi |-> 0, s |-> 60,
                  micros |-> 500000, off |-> 0])
      [] OTHER -> None

\* Days from 1970-01-01 to the civil date y-mo-d (proleptic Gregorian).
DaysFromCivil(y, mo, d) ==
    LET yy == IF mo <= 2 THEN y - 1 ELSE y
        era == yy \div 400
        yoe == yy - era * 400
        mp == IF mo > 2 THEN mo - 3 ELSE mo + 9
        doy == (153 * mp + 2) \div 5 + d - 1
        doe == yoe * 365 + yoe \div 4 - yoe \div 100 + doy
    IN  era * 146097 + doe - 719468

\* chrono keeps a seconds field of 60 as second 59 with a fraction of one
\* second and more.
Second(f) == IF f.s = 60 THEN 59 ELSE f.s
SubsecMicros(f) == IF f.s = 60 THEN 1000000 + f.micros ELSE f.micros

\* DateTime::timestamp: seconds since the epoch (rounded down).
Timestamp(f) ==
    DaysFromCivil(f.y, f.mo, f.d) * 86400 + f.h * 3600 + f.mi * 60 + Second(f) - f.off

\* DateTime::timestamp_subsec_millis: 1000 and more in a leap second.
TimestampSubsecMillis(f) == SubsecMicros(f) \div 1000

\* DateTime::parse_from_rfc3339 on the string a Text spells
parse_from_rfc3339(date_string) ==
    LET f == Rfc3339Fields(Flatten(date_string))
    IN  IF IsSome(f) THEN Ok(Unwrap(f)) ELSE Err("input is not RFC 3339")

svn_date_string_to_timestamp(date_string) ==
    LET r == parse_from_rfc3339(date_string)
    IN  IF r.ok THEN Some(Timestamp(r.val)) ELSE None

\* Svn::is_svn; ret is the bool.
is_svn(info) ==
    LET c == vcs_command("svn info", info)
        yes == IsSome(c.ret) /\ Contains(Unwrap(c.ret), "URL:")
    IN  [panicked |-> c.panicked, ran |-> c.ran, ret |-> yes,
         logged |-> c.logged \o
            (IF c.panicked THEN <<>>
             ELSE IF yes THEN <<"Current directory is in SVN">>
             ELSE <<"Current directory is not in SVN">>)]

\* Svn::branch
Svn_branch(info, show_url) ==
    LET i == is_svn(info)
        c == vcs_command("svn info --show-item url", show_url)
    IN  IF i.panicked \/ ~i.ret
        THEN [panicked |-> i.panicked, ran |-> i.ran, logged |-> i.logged, ret |-> None]
        ELSE IF c.panicked \/ ~IsSome(c.ret)
        THEN [panicked |-> c.panicked, ran |-> i.ran \o c.ran,
              logged |-> i.logged \o c.logged, ret |-> None]
        ELSE [panicked |-> FALSE, ran |-> i.ran \o c.ran,
              logged |-> i.logged \o c.logged
                         \o <<"Trying to parse SVN URL: " \o Flatten(Unwrap(c.ret))>>,
              ret |-> extract_branch_from_url(Unwrap(c.ret))]

\* Svn::branch_from_environment: reads SVN_URL from the process environment
\* (std::env::var, not the App's accessor).
Svn_branch_from_environment(svn_url) ==
    [lookups |-> <<[name |-> "SVN_URL", answer |-> svn_url, accessor |-> "std::env::var"]>>,
     logged |-> <<"$SVN_URL=" \o (IF IsSome(svn_url) THEN Flatten(Unwrap(svn_url)) ELSE "")>>,
     ret |-> IF IsSome(svn_url) THEN extract_branch_from_url(Unwrap(svn_url)) ELSE None]

\* Svn::timestamp
Svn_timestamp(info, show_date) ==
    LET i == is_svn(info)
        c == vcs_command("svn info --show-item last-changed-date", show_date)
        date_string == Trim(Unwrap(c.ret))
        timestamp == svn_date_string_to_timestamp(date_string)
    IN  IF i.panicked \/ ~i.ret
        THEN [panicked |-> i.panicked, ran |-> i.ran, logged |-> i.logged, ret |-> None]
        ELSE IF c.panicked \/ ~IsSome(c.ret)
        THEN [panicked |-> c.panicked, ran |-> i.ran \o c.ran,
              logged |-> i.logged \o c.logged, ret |-> None]
        ELSE [panicked |-> FALSE, ran |-> i.ran \o c.ran,
              logged |-> i.logged \o c.logged
                         \o <<"Read date " \o Flatten(date_string) \o " from SVN">>,
              ret |-> IF IsSome(timestamp)
                      THEN Some(ToString(Unwrap(timestamp)) \o "000")
                      ELSE None]

-----------------------------------------------------------------------------
(* git.rs                                                                   *)

\* Git::is_git; ret is the bool.
is_git(rev_parse) ==
    LET c == vcs_command("git rev-parse --is-inside-work-tree", rev_parse)
        yes == IsSome(c.ret) /\ Trim(Unwrap(c.ret)) = <<"true">>
    IN  [panicked |-> c.panicked, ran |-> c.ran, ret |-> yes,
         logged |-> c.logged \o
            (IF c.panicked THEN <<>>
             ELSE IF yes THEN <<"Current directory is in git">>
             ELSE <<"Current directory is not in git">>)]

\* Git::head_timestamp: the stdout of git log, as printed.
Git_head_timestamp(rev_parse, log) ==
    LET i == is_git(rev_parse)
        c == vcs_command("git --no-pager log -n1 --format=%ct000", log)
    IN  IF i.panicked \/ ~i.ret
        THEN [panicked |-> i.panicked, ran |-> i.ran, logged |-> i.logged, ret |-> None]
        ELSE [panicked |-> c.panicked, ran |-> i.ran \o c.ran,
              logged |-> i.logged \o c.logged,
              ret |-> IF IsSome(c.ret) THEN Some(Flatten(Unwrap(c.ret))) ELSE None]

\* Index of the first "\n" of a text at or after i, or Len + 1.
RECURSIVE LineEnd(_, _)
LineEnd(text, i) ==
    IF i > Len(text) \/ text[i] = "\n" THEN i ELSE LineEnd(text, i + 1)

\* str::lines: split at "\n"; a final line end opens no further line.
RECURSIVE Lines(_)
Lines(text) ==
    IF text = <<>> THEN <<>>
    ELSE LET k == LineEnd(text, 1)
         IN  <<SubSeq(text, 1, k - 1)>> \o Lines(SubSeq(text, k + 1, Len(text)))

\* The line trimmed, with its marker left in place.
StripMarker_trim_only(line) == Trim(line)

\* branch_regex.replace_all(line.trim(), ""): the regex ^\s*[*]\s* removes
\* a leading "*" and the whitespace after it.
StripMarker(line) ==
    LET trimmed == Trim(line)
    IN  IF trimmed # <<>> /\ Head(trimmed) = "*" THEN TrimStart(Tail(trimmed)) ELSE trimmed

\* Git::preprocess_branch_text
preprocess_branch_text(branch_text) ==
    LET lines == Lines(branch_text)
        kept == SelectSeq(lines, LAMBDA line : ~Contains(StripMarker(line), "HEAD detached"))
    IN  [i \in 1..Len(kept) |-> Flatten(StripMarker(kept[i]))]

RECURSIVE Join(_, _)
Join(strings, separator) ==
    IF strings = <<>> THEN ""
    ELSE IF Len(strings) = 1 THEN strings[1]
    ELSE strings[1] \o separator \o Join(Tail(strings), separator)

\* Git::extract_single_branch
extract_single_branch(branch_text) ==
    LET branches == preprocess_branch_text(branch_text)
    IN  IF Len(branches) = 0
        THEN [logged |-> <<"Found no branches in the Git repo that contain the HEAD commit">>,
              ret |-> None]
        ELSE IF Len(branches) = 1
        THEN [logged |-> <<"Found exactly one branch in the Git repo that contains the HEAD commit: "
                           \o branches[1]>>,
              ret |-> Some(branches[1])]
        ELSE [logged |-> <<"Found more than one branch in the Git repo that contains the HEAD commit: "
                           \o Join(branches, ", ")>>,
              ret |-> None]

\* Git::guess_branch
Git_guess_branch(rev_parse, branch_contains) ==
    LET i == is_git(rev_parse)
        c == vcs_command("git branch --contains", branch_contains)
        e == extract_single_branch(Unwrap(c.ret))
    IN  IF i.panicked \/ ~i.ret
        THEN [panicked |-> i.panicked, ran |-> i.ran, logged |-> i.logged, ret |-> None]
        ELSE IF c.panicked \/ ~IsSome(c.ret)
        THEN [panicked |-> c.panicked, ran |-> i.ran \o c.ran,
              logged |-> i.logged \o c.logged, ret |-> None]
        ELSE [panicked |-> FALSE, ran |-> i.ran \o c.ran,
              logged |-> i.logged \o c.logged \o e.logged, ret |-> e.ret]

-----------------------------------------------------------------------------
(* utils.rs: PeekOption; env_reader.rs; the accessor built by App::new     *)

\* PeekOption::if_some / if_none: the values the peeker is called with.
if_some(self) == IF IsSome(self) THEN <<Unwrap(self)>> ELSE <<>>
if_none(self) == IF IsSome(self) THEN <<>> ELSE <<TRUE>>

\* The same reading of peek_or_default with the None arm dropped (what
\* if_some does).
peek_or_default_some_only(self, default) == if_some(self)

\* PeekOption::peek_or_default: the peeker sees the value, or the default.
peek_or_default(self, default) ==
    IF IsSome(self) THEN <<Unwrap(self)>> ELSE <<default>>

\* The EnvReader App::new builds around the injected one: the injected
\* reader answers, and the answer is logged as "$name=value".
App_env_variable(name, answer) ==
    LET peeked == peek_or_default(answer, <<>>)
    IN  [ret |-> answer,
         lookups |-> <<[name |-> name, answer |-> answer, accessor |-> "App"]>>,
         logged |-> [i \in 1..Len(peeked) |-> "$" \o name \o "=" \o Flatten(peeked[i])]]

-----------------------------------------------------------------------------
(* tfs.rs                                                                   *)

TfsError(kind, detail, status, url) ==
    [kind |-> kind, detail |-> detail, status |-> status, url |-> url]

\* impl Display for TfsError
Display(error) ==
    CASE error.kind = "JsonParseFailed" ->
            "Failed to parse JSON response from TFS: expected value. Original response: "
            \o error.detail
      [] error.kind = "RequestTimedOut" ->
            "Request to " \o error.url \o " timed out: timed out"
      [] error.kind = "TfsInternalServerError" ->
            "TFS returned error for request to " \o error.url \o ": " \o error.detail
      [] error.kind = "OtherRequestError" ->
            "Request to " \o error.url \o " failed with HTTP status code "
            \o (IF error.status = 0 THEN "<no HTTP status>" ELSE ToString(error.status))
            \o ": " \o error.detail
      [] error.kind = "AccessTokenNotProvided" ->
            "Environment variable SYSTEM_ACCESSTOKEN not set."
      [] error.kind = "InvalidAccessToken" ->
            "The access token provided via the environment variable SYSTEM_ACCESSTOKEN was not accepted by the TFS."
      [] error.kind = "DateStringCannotBeParsed" ->
            "TFS returned unparsable date " \o error.detail \o ": input is not RFC 3339"
      [] error.kind = "CannotReadRequestBody" ->
            "Failed to read request body: " \o error.detail
      [] error.kind = "RequestStatusNotSuccessful" ->
            "Request to " \o error.url \o " failed with status code " \o ToString(error.status)

\* AccessToken::configure: the Authorization header of the request.
AccessToken_configure(access_token) ==
    IF access_token.kind = "Personal"
    THEN [scheme |-> "Basic", username |-> "", secret |-> access_token.token]
    ELSE [scheme |-> "Bearer", username |-> "", secret |-> access_token.token]

\* Url::parse: an absolute URL starts with a scheme.
UrlSchemes == {"http:", "https:"}
Url_parse(url_string) ==
    IF url_string # <<>> /\ Head(url_string) \in UrlSchemes
    THEN Ok(url_string)
    ELSE Err("relative URL without a base")

\* Tfs::create_changeset_url; panicked is the unwrap() of the parse.
create_changeset_url(collection_uri, teamproject, changeset) ==
    LET url_string == collection_uri \o <<"/">> \o teamproject
                      \o <<"/", "_apis", "/", "tfvc", "/", "changesets", "/">> \o changeset
        parsed == Url_parse(url_string)
    IN  [panicked |-> ~parsed.ok, ret |-> url_string]

\* Tfs::get_access_token
get_access_token(system_accesstoken) ==
    LET l == App_env_variable("SYSTEM_ACCESSTOKEN", system_accesstoken)
    IN  [lookups |-> l.lookups, logged |-> l.logged,
         ret |-> IF IsSome(l.ret)
                 THEN Ok(Flatten(Unwrap(l.ret)))
                 ELSE Err(TfsError("AccessTokenNotProvided", "", 0, ""))]

\* StatusCode::is_success, StatusCode::is_redirection, is_server_error
is_success(status) == 200 <= status /\ status <= 299
is_redirection(status) == 300 <= status /\ status <= 399
is_server_error(status) == 500 <= status /\ status <= 599

\* is_tfs_signin_redirect: a Location header that is no visible ASCII does
\* not convert with to_str() and counts as no header.
is_tfs_signin_redirect(resp) ==
    IF resp.location.present /\ resp.location.ascii
    THEN resp.status = 302 /\ Contains(resp.location.text, "/_signin")
    ELSE FALSE

\* impl From<reqwest::Error> for TfsError
From_reqwest_Error(error, url) ==
    IF error.timeout THEN TfsError("RequestTimedOut", error.detail, error.status, url)
    ELSE IF error.status # 0 /\ is_server_error(error.status)
    THEN TfsError("TfsInternalServerError", error.detail, error.status, url)
    ELSE TfsError("OtherRequestError", error.detail, error.status, url)

\* The policy reqwest uses when none is set: follow up to ten redirects.
RedirectPolicyLimited == "limited"

\* .redirect(RedirectPolicy::none()) of the client Tfs::request builds
RedirectPolicy == "none"

\* Client::get(url).send(): the requests that go out for one send() and what
\* it returns.  With redirects off the answer of the first request is
\* returned as it is; a client that follows redirects requests the Location
\* of a 3xx answer as well.
send(req, answer, redirect_policy) ==
    IF answer.kind = "response" /\ redirect_policy # "none"
       /\ is_redirection(answer.status) /\ answer.location.present /\ answer.location.ascii
    THEN [sent |-> <<req, [req EXCEPT !.url = Flatten(answer.location.text)]>>, ret |-> answer]
    ELSE [sent |-> <<req>>, ret |-> answer]

\* Tfs::request
request(url, access_token, answer) ==
    LET req == [url |-> Flatten(url), authorization |-> AccessToken_configure(access_token)]
        s == send(req, answer, RedirectPolicy)
        resp == s.ret
    IN  [sent |-> s.sent,
         logged |-> <<"Requesting URL " \o Flatten(url)>>,
         ret |-> IF resp.kind = "error" THEN Err(From_reqwest_Error(resp, Flatten(url)))
                 ELSE IF is_tfs_signin_redirect(resp)
                 THEN Err(TfsError("InvalidAccessToken", "", 0, ""))
                 ELSE IF ~is_success(resp.status)
                 THEN Err(TfsError("RequestStatusNotSuccessful", "", resp.status, Flatten(url)))
                 ELSE Ok(resp)]

\* Tfs::parse_response: read the body, then deserialize a ChangesetResponse
\* (a JSON object with a string field createdDate).
parse_response(resp) ==
    IF ~resp.body.readable
    THEN Err(TfsError("CannotReadRequestBody", "connection reset", 0, ""))
    ELSE IF ~resp.body.json \/ ~IsSome(resp.body.createdDate)
    THEN Err(TfsError("JsonParseFailed", resp.body.text, 0, ""))
    ELSE Ok([created_date |-> Unwrap(resp.body.createdDate)])

\* format!("{:03}", n)
Pad3(n) ==
    IF n < 10 THEN "00" \o ToString(n)
    ELSE IF n < 100 THEN "0" \o ToString(n)
    ELSE ToString(n)

\* tfs::parse_date
parse_date(date_string) ==
    LET r == parse_from_rfc3339(date_string)
    IN  IF r.ok
        THEN Ok(ToString(Timestamp(r.val)) \o Pad3(TimestampSubsecMillis(r.val)))
        ELSE Err(TfsError("DateStringCannotBeParsed", Flatten(date_string), 0, ""))


NoEffect == [panicked |-> FALSE, lookups |-> <<>>, logged |-> <<>>, sent |-> <<>>,
             response |-> None]

\* Tfs::timestamp_or_error.  ret is the TfsResult<String>.
timestamp_or_error(collection_uri, teamproject, changeset, personal_access_token, system_accesstoken, answer) ==
    LET url == create_changeset_url(collection_uri, teamproject, changeset)
        env_token == get_access_token(system_accesstoken)
        access_token ==
            IF IsSome(personal_access_token)
            THEN [kind |-> "Personal", token |-> Unwrap(personal_access_token)]
            ELSE [kind |-> "Oauth", token |-> env_token.ret.val]
        token_effect ==
            IF IsSome(personal_access_token) THEN NoEffect
            ELSE [NoEffect EXCEPT !.lookups = env_token.lookups, !.logged = env_token.logged]
        r == request(url.ret, access_token, answer)
        requested == [token_effect EXCEPT !.logged = @ \o r.logged, !.sent = r.sent,
                                          !.response = Some(answer)]
        changeset_response == parse_response(r.ret.val)
    IN  IF url.panicked
        THEN [effect |-> [NoEffect EXCEPT !.panicked = TRUE],
              ret |-> Err(TfsError("", "", 0, ""))]
        ELSE IF ~IsSome(personal_access_token) /\ ~env_token.ret.ok
        THEN [effect |-> token_effect, ret |-> env_token.ret]
        ELSE IF ~r.ret.ok
        THEN [effect |-> requested, ret |-> r.ret]
        ELSE IF ~changeset_response.ok
        THEN [effect |-> requested, ret |-> changeset_response]
        ELSE [effect |-> requested, ret |-> parse_date(changeset_response.val.created_date)]

\* A missing variable handled as a failure of the client: an error is made
\* and logged.
inapplicable_as_error(looked) ==
    [effect |-> [NoEffect EXCEPT !.lookups = looked.lookups,
                                 !.logged = looked.logged \o <<"Environment variable not set.">>],
     result |-> Some(Err(TfsError("AccessTokenNotProvided", "", 0, ""))), ret |-> None]

\* The ? on a variable that is not set: Tfs::timestamp returns None at once,
\* after the lookups made so far.
inapplicable(looked) ==
    [effect |-> [NoEffect EXCEPT !.lookups = looked.lookups, !.logged = looked.logged],
     result |-> None, ret |-> None]

\* Tfs::timestamp.  result is the TfsResult of timestamp_or_error when it
\* was called; ret is the Option<String> returned.
Tfs_timestamp(system_teamprojectid, build_sourceversion, collection_uri_answer, personal_access_token, system_accesstoken, answer) ==
    LET teamproject == App_env_variable("SYSTEM_TEAMPROJECTID", system_teamprojectid)
        changeset == App_env_variable("BUILD_SOURCEVERSION", build_sourceversion)
        collection_uri ==
            App_env_variable("SYSTEM_TEAMFOUNDATIONCOLLECTIONURI", collection_uri_answer)
        first == [lookups |-> teamproject.lookups, logged |-> teamproject.logged]
        second == [lookups |-> first.lookups \o changeset.lookups,
                   logged |-> first.logged \o changeset.logged]
        third == [lookups |-> second.lookups \o collection_uri.lookups,
                  logged |-> second.logged \o collection_uri.logged]
        t == timestamp_or_error(Unwrap(collection_uri.ret), Unwrap(teamproject.ret),
                                Unwrap(changeset.ret), personal_access_token,
                                system_accesstoken, answer)
        effect == [t.effect EXCEPT !.lookups = third.lookups \o @,
                                   !.logged = third.logged \o @]
    IN  IF ~IsSome(teamproject.ret) THEN inapplicable(first)
        ELSE IF ~IsSome(changeset.ret) THEN inapplicable(second)
        ELSE IF ~IsSome(collection_uri.ret) THEN inapplicable(third)
        ELSE IF t.effect.panicked THEN [effect |-> effect, result |-> None, ret |-> None]
        ELSE IF t.ret.ok THEN [effect |-> effect, result |-> Some(t.ret), ret |-> Some(t.ret.val)]
        ELSE [effect |-> [effect EXCEPT !.logged = @ \o <<Display(t.ret.err)>>],
              result |-> Some(t.ret), ret |-> None]

-----------------------------------------------------------------------------
(* app.rs                                                                   *)

\* .or_else(|| ..) read as if it were .or(..): the argument always evaluated.
or_else_always_evaluates(self) == TRUE

\* Option::or_else: the closure runs only when the receiver is None.
or_else_evaluates(self) == ~IsSome(self)

\* .or(..) read as if it were .or_else(|| ..).
or_short_circuits(self) == ~IsSome(self)

\* self.or(argument): Rust evaluates the argument expression before the
\* call, whatever the receiver is.
or_evaluates(self) == TRUE

\* App::branch_from_svn
branch_from_svn(info, show_url, svn_url) ==
    LET b == Svn_branch(info, show_url)
        e == IF or_evaluates(b.ret) THEN Svn_branch_from_environment(svn_url)
             ELSE [lookups |-> <<>>, logged |-> <<>>, ret |-> None]
        branch == Or(b.ret, e.ret)
        intro == <<"Trying to guess branch name from SVN">>
    IN  IF b.panicked
        THEN [panicked |-> TRUE, ran |-> b.ran, lookups |-> <<>>,
              logged |-> intro \o b.logged, ret |-> None]
        ELSE [panicked |-> FALSE, ran |-> b.ran, lookups |-> e.lookups,
              logged |-> intro \o b.logged \o e.logged
                         \o [i \in 1..Len(if_some(branch)) |-> "Found SVN branch " \o branch[1]]
                         \o [i \in 1..Len(if_none(branch)) |-> "Found no SVN branch"],
              ret |-> branch]

\* The variable names App::branch_from_environment reads, in its order.
BranchVariables ==
    <<"BRANCH", "branch", "GIT_BRANCH", "build_branch", "BUILD_BRANCH", "BRANCH_NAME",
      "BUILD_SOURCEBRANCHNAME", "CIRCLE_BRANCH", "TRAVIS_BRANCH", "BITBUCKET_BRANCH",
      "CI_MERGE_REQUEST_SOURCE_BRANCH_NAME", "CI_COMMIT_REF_NAME",
      "APPVEYOR_PULL_REQUEST_HEAD_REPO_BRANCH", "APPVEYOR_REPO_BRANCH">>

\* The chain env_variable(v1).or(env_variable(v2)).or(...) up to variable n;
\* environment[i] is what the injected reader answers for variable i.
RECURSIVE EnvironmentChain(_, _)
EnvironmentChain(environment, n) ==
    LET first == App_env_variable(BranchVariables[1], environment[1])
        self == EnvironmentChain(environment, n - 1)
        argument == App_env_variable(BranchVariables[n], environment[n])
    IN  IF n = 1 THEN first
        ELSE IF or_evaluates(self.ret)
        THEN [ret |-> Or(self.ret, argument.ret),
              lookups |-> self.lookups \o argument.lookups,
              logged |-> self.logged \o argument.logged]
        ELSE self

\* App::branch_from_environment
branch_from_environment(environment) ==
    LET chain == EnvironmentChain(environment, Len(BranchVariables))
        branch == IF IsSome(chain.ret) THEN Some(Flatten(Unwrap(chain.ret))) ELSE None
    IN  [lookups |-> chain.lookups,
         logged |-> <<"Trying to guess branch name from environment variables">>
                    \o chain.logged
                    \o [i \in 1..Len(if_some(branch)) |->
                            "Found branch " \o branch[1] \o " in environment"]
                    \o [i \in 1..Len(if_none(branch)) |-> "Found no branch in environment"],
         ret |-> branch]

\* App::guess_branch_from_git
guess_branch_from_git(rev_parse, branch_contains) ==
    LET g == Git_guess_branch(rev_parse, branch_contains)
    IN  [g EXCEPT !.logged = <<"Trying to guess branch name from Git">> \o @]


\* The chain with Git ahead of the environment.
guess_branch_git_first(svn, environment, git) == Or(Or(svn, git), environment)

\* The chain with the TFS answer ahead of the local ones.
guess_timestamp_tfs_first(svn, git, tfs) == Or(Or(tfs, svn), git)

\* App::guess_branch: the value of .or(..).or(..) over the three results.
guess_branch(svn, environment, git) == Or(Or(svn, environment), git)

\* App::guess_timestamp: svn_timestamp.or(git_timestamp).or(tfs_timestamp)
guess_timestamp(svn, git, tfs) == Or(Or(svn, git), tfs)

-----------------------------------------------------------------------------
(* What the outside world can answer                                        *)

\* How many of the CI branch variables are set at once.
MaxBranchVarsSet == 2

SvnRoot == <<"https:", "/", "/", "svn.com", "/", "repo">>

SvnInfoOutcomes ==
    { SpawnError,
      Spawned(1, <<>>),
      Spawned(0, <<"Path:", " ", ".", "\n", "URL:", " ">> \o SvnRoot \o <<"/", "trunk", "\n">>),
      Spawned(0, <<"\n">>),
      NotUtf8 }

SvnUrlOutcomes ==
    { Spawned(1, <<>>),
      Spawned(0, SvnRoot \o <<"/", "trunk", "/", "proj", "\n">>),
      Spawned(0, SvnRoot \o <<"/", "branches", "/", "foo", "/", "proj", "\n">>),
      Spawned(0, SvnRoot \o <<"/", "unrelated", "\n">>) }

SvnUrlValues ==
    { None,
      Some(SvnRoot \o <<"/", "tags", "/", "v1", "/", "proj">>),
      Some(SvnRoot \o <<"/", "trunkate">>) }

SvnDateOutcomes ==
    { Spawned(1, <<>>),
      Spawned(0, <<"2019-08-06T14:13:34.879966Z", "\n">>),
      Spawned(0, <<"\n">>) }

GitRevParseOutcomes ==
    { SpawnError,
      Spawned(128, <<>>),
      Spawned(0, <<"true", "\n">>),
      Spawned(0, <<"false", "\n">>) }

GitBranchOutcomes ==
    { Spawned(128, <<>>),
      Spawned(0, <<"*", " ", "master", "\n">>),
      Spawned(0, <<"*", " ", "master", "\n", " ", " ", "develop", "\n">>),
      Spawned(0, <<"*", " ", "(", "HEAD detached", " at 6f9a90e36e6)", "\n",
                   " ", " ", "master", "\n">>),
      Spawned(0, <<"*", " ", "(", "HEAD detached", " at 6f9a90e36e6)", "\n">>),
      NotUtf8 }

GitLogOutcomes ==
    { Spawned(128, <<>>),
      Spawned(0, <<"1565100814000", "\n">>) }

\* What the injected reader answers for the fourteen branch variables.
BranchValue(i) == Some(<<"from-" \o BranchVariables[i]>>)
BranchEnvironments ==
    { [i \in DOMAIN BranchVariables |-> IF i \in set THEN BranchValue(i) ELSE None] :
        set \in { s \in SUBSET DOMAIN BranchVariables : Cardinality(s) <= MaxBranchVarsSet } }

TeamProjectValues == { None, Some(<<"TestData">>) }
SourceVersionValues == { None, Some(<<"27754">>) }
CollectionUriValues ==
    { None,
      Some(<<"https:", "/", "/", "cqse.visualstudio.com">>),
      Some(<<"cqse.visualstudio.com">>) }
AccessTokenValues == { None, Some(<<"oauth-secret">>) }

NoLocation == [present |-> FALSE, ascii |-> TRUE, text |-> <<>>]
Location(text) == [present |-> TRUE, ascii |-> TRUE, text |-> text]
\* A header value with a byte outside visible ASCII: HeaderValue::to_str
\* fails on it.
OpaqueLocation(text) == [present |-> TRUE, ascii |-> FALSE, text |-> text]
Locations ==
    { NoLocation,
      Location(<<"https:", "/", "/", "cqse.visualstudio.com", "/_signin", "?realm=x">>),
      Location(<<"https:", "/", "/", "cqse.visualstudio.com", "/", "moved">>),
      OpaqueLocation(<<"https:", "/", "/", "cqse.visualstudio.com", "/_signin",
                       "?realm=", "[0xFC]">>) }

NoBody == [readable |-> TRUE, json |-> FALSE, text |-> "", createdDate |-> None]
Bodies ==
    { [readable |-> FALSE, json |-> FALSE, text |-> "", createdDate |-> None],
      [readable |-> TRUE, json |-> FALSE, text |-> "<html>", createdDate |-> None],
      [readable |-> TRUE, json |-> TRUE, text |-> "{}", createdDate |-> None],
      [readable |-> TRUE, json |-> TRUE, text |-> "{createdDate:yesterday}",
       createdDate |-> Some(<<"yesterday">>)],
      [readable |-> TRUE, json |-> TRUE, text |-> "{createdDate:2019-03-10T15:27:14.803Z}",
       createdDate |-> Some(<<"2019-03-10T15:27:14.803Z">>)] }

Response(status, location, body) ==
    [kind |-> "response", status |-> status, location |-> location, body |-> body,
     timeout |-> FALSE, detail |-> ""]
TransportError(timeout, detail) ==
    [kind |-> "error", status |-> 0, location |-> NoLocation, body |-> NoBody,
     timeout |-> timeout, detail |-> detail]

\* What the server, or the transport, answers to the one request.
ServerAnswers ==
    { Response(status, location, NoBody) :
        status \in {301, 302, 404, 500}, location \in Locations }
    \cup { Response(status, location, body) :
        status \in {200, 204}, location \in {NoLocation}, body \in Bodies }
    \cup { Response(200, location, NoBody) : location \in Locations }
    \cup { TransportError(TRUE, "timed out"), TransportError(FALSE, "connection refused") }

CommandLines ==
    [verbose : BOOLEAN,
     branch : {None, Some("release")},
     revfile : {None, Some("revision.txt")},
     tfs_pat : {None, Some("pat-secret")}]


-----------------------------------------------------------------------------
(* main.rs: one run                                                         *)

Init ==
    /\ pc = "main"
    /\ args \in CommandLines
    /\ svn_branch = None /\ env_branch = None /\ git_branch = None /\ opt_branch = None
    /\ svn_timestamp = None /\ git_timestamp = None /\ tfs_timestamp = None
    /\ opt_timestamp = None
    /\ tfs_result = None
    /\ ran = <<>> /\ lookups = <<>> /\ logged = <<>>
    /\ requests = <<>> /\ response = None
    /\ stdout_token = <<>> /\ revision_txt = None
    /\ panic = None
    /\ input = None /\ output = None

\* A step of the run: where it goes next, and what it ran, looked up and
\* logged.  A panic ends the run.
Step(next_pc, effect, panic_message) ==
    /\ ran' = effect.ran
    /\ lookups' = effect.lookups
    /\ logged' = effect.logged
    /\ IF effect.panicked
       THEN pc' = "exit" /\ panic' = Some(panic_message)
       ELSE pc' = next_pc /\ panic' = panic
    /\ UNCHANGED <<input, output>>

\* Logger::log: the messages of the last step that were printed (to stdout,
\* with --verbose only).
Printed == IF args.verbose THEN logged ELSE <<>>

Quiet == [panicked |-> FALSE, ran |-> <<>>, lookups |-> <<>>, logged |-> <<>>]

Utf8Panic == "called Result::unwrap() on an Err value: Utf8Error"
UrlPanic == "called Result::unwrap() on an Err value: RelativeUrlWithoutBase"

\* env!("CARGO_PKG_VERSION"): the version compiled in; only logged.
CARGO_PKG_VERSION == "x.y.z"

\* main, up to opt_branch: --branch wins, and guess_branch is called only
\* without it (or_else).
MainStart ==
    /\ pc = "main"
    /\ opt_branch' = IF or_else_evaluates(args.branch) THEN opt_branch ELSE args.branch
    /\ Step(IF or_else_evaluates(args.branch) THEN "branch_from_svn" ELSE "svn_timestamp",
            [Quiet EXCEPT !.logged =
                <<"teamscale-timestamp v" \o CARGO_PKG_VERSION
                  \o " trying to determine branch + timestamp for an external upload">>],
            "")
    /\ UNCHANGED <<args, svn_branch, env_branch, git_branch, svn_timestamp, git_timestamp,
                   tfs_timestamp, opt_timestamp, tfs_result, requests, response,
                   stdout_token, revision_txt>>

\* guess_branch: self.branch_from_svn()
BranchFromSvn ==
    /\ pc = "branch_from_svn"
    /\ \E info \in SvnInfoOutcomes, show_url \in SvnUrlOutcomes, svn_url \in SvnUrlValues :
       \E r \in {branch_from_svn(info, show_url, svn_url)} :
              /\ svn_branch' = r.ret
              /\ Step("branch_from_environment",
                      [r EXCEPT !.logged = <<"Trying to determine branch">> \o @],
                      Utf8Panic)
    /\ UNCHANGED <<args, env_branch, git_branch, opt_branch, svn_timestamp, git_timestamp,
                   tfs_timestamp, opt_timestamp, tfs_result, requests, response,
                   stdout_token, revision_txt>>

\* guess_branch: the argument of .or(self.branch_from_environment())
BranchFromEnvironment ==
    /\ pc = "branch_from_environment"
    /\ IF or_evaluates(svn_branch)
       THEN \E environment \in BranchEnvironments :
            \E r \in {branch_from_environment(environment)} :
                   /\ env_branch' = r.ret
                   /\ Step("guess_branch_from_git",
                           [Quiet EXCEPT !.lookups = r.lookups, !.logged = r.logged], "")
       ELSE /\ env_branch' = None
            /\ Step("guess_branch_from_git", Quiet, "")
    /\ UNCHANGED <<args, svn_branch, git_branch, opt_branch, svn_timestamp, git_timestamp,
                   tfs_timestamp, opt_timestamp, tfs_result, requests, response,
                   stdout_token, revision_txt>>

\* guess_branch: the argument of .or(self.guess_branch_from_git())
GuessBranchFromGit ==
    /\ pc = "guess_branch_from_git"
    /\ IF or_evaluates(Or(svn_branch, env_branch))
       THEN \E rev_parse \in GitRevParseOutcomes, branch_contains \in GitBranchOutcomes :
            \E r \in {guess_branch_from_git(rev_parse, branch_contains)} :
                   /\ git_branch' = r.ret
                   /\ Step("guess_branch_return",
                           [panicked |-> r.panicked, ran |-> r.ran, lookups |-> <<>>,
                            logged |-> r.logged],
                           Utf8Panic)
       ELSE /\ git_branch' = None
            /\ Step("guess_branch_return", Quiet, "")
    /\ UNCHANGED <<args, svn_branch, env_branch, opt_branch, svn_timestamp, git_timestamp,
                   tfs_timestamp, opt_timestamp, tfs_result, requests, response,
                   stdout_token, revision_txt>>

\* guess_branch returns into main's opt_branch.
GuessBranchReturn ==
    /\ pc = "guess_branch_return"
    /\ opt_branch' = guess_branch(svn_branch, env_branch, git_branch)
    /\ Step("svn_timestamp", Quiet, "")
    /\ UNCHANGED <<args, svn_branch, env_branch, git_branch, svn_timestamp, git_timestamp,
                   tfs_timestamp, opt_timestamp, tfs_result, requests, response,
                   stdout_token, revision_txt>>

\* guess_timestamp: let svn_timestamp = svn.timestamp()...  The locals of
\* guess_branch are gone by now.
SvnTimestamp ==
    /\ pc = "svn_timestamp"
    /\ \E info \in SvnInfoOutcomes, show_date \in SvnDateOutcomes :
       \E r \in {Svn_timestamp(info, show_date)} :
          LET t == r.ret
          IN  /\ svn_timestamp' = t
              /\ svn_branch' = None /\ env_branch' = None /\ git_branch' = None
              /\ Step("git_head_timestamp",
                      [panicked |-> r.panicked, ran |-> r.ran, lookups |-> <<>>,
                       logged |-> <<"Trying to determine timestamp">> \o r.logged
                           \o [i \in 1..Len(if_some(t)) |-> "Found SVN timestamp " \o t[1]]
                           \o [i \in 1..Len(if_none(t)) |-> "Found no SVN timestamp"]],
                      Utf8Panic)
    /\ UNCHANGED <<args, opt_branch, git_timestamp,
                   tfs_timestamp, opt_timestamp, tfs_result, requests, response,
                   stdout_token, revision_txt>>

\* guess_timestamp: let git_timestamp = git.head_timestamp()...
GitHeadTimestamp ==
    /\ pc = "git_head_timestamp"
    /\ \E rev_parse \in GitRevParseOutcomes, log \in GitLogOutcomes :
       \E r \in {Git_head_timestamp(rev_parse, log)} :
          LET t == r.ret
          IN  /\ git_timestamp' = t
              /\ Step("tfs_timestamp",
                      [panicked |-> r.panicked, ran |-> r.ran, lookups |-> <<>>,
                       logged |-> r.logged
                           \o [i \in 1..Len(if_some(t)) |-> "Found Git timestamp " \o t[1]]
                           \o [i \in 1..Len(if_none(t)) |-> "Found no Git timestamp"]],
                      Utf8Panic)
    /\ UNCHANGED <<args, svn_branch, env_branch, git_branch, opt_branch, svn_timestamp,
                   tfs_timestamp, opt_timestamp, tfs_result, requests, response,
                   stdout_token, revision_txt>>

\* The answers to draw for a question: those of the set when the question
\* is asked, and a single one (never read) when it is not.
Asked(asked, answers) == IF asked THEN answers ELSE {CHOOSE a \in answers : TRUE}

\* guess_timestamp: let tfs_timestamp = tfs.timestamp(personal_access_token)...
TfsTimestamp ==
    /\ pc = "tfs_timestamp"
    /\ \E teamproject \in TeamProjectValues :
       \E changeset \in Asked(IsSome(teamproject), SourceVersionValues) :
       \E collection_uri \in Asked(IsSome(changeset), CollectionUriValues) :
       \E access_token \in Asked(IsSome(collection_uri), AccessTokenValues) :
       \E answer \in Asked(IsSome(collection_uri), ServerAnswers) :
       \E r \in {Tfs_timestamp(teamproject, changeset, collection_uri, args.tfs_pat,
                                 access_token, answer)} :
          LET t == r.ret
          IN  /\ tfs_timestamp' = t
              /\ tfs_result' = r.result
              /\ requests' = requests \o r.effect.sent
              /\ response' = r.effect.response
              /\ Step("guess_timestamp_return",
                      [panicked |-> r.effect.panicked, ran |-> <<>>,
                       lookups |-> r.effect.lookups,
                       logged |-> r.effect.logged
                           \o [i \in 1..Len(if_some(t)) |-> "Found TFVC timestamp " \o t[1]]
                           \o [i \in 1..Len(if_none(t)) |-> "Found no TFVC timestamp"]],
                      UrlPanic)
    /\ UNCHANGED <<args, svn_branch, env_branch, git_branch, opt_branch, svn_timestamp,
                   git_timestamp, opt_timestamp, stdout_token, revision_txt>>

\* guess_timestamp returns into main's opt_timestamp.
GuessTimestampReturn ==
    /\ pc = "guess_timestamp_return"
    /\ opt_timestamp' = guess_timestamp(svn_timestamp, git_timestamp, tfs_timestamp)
    /\ Step("match", Quiet, "")
    /\ UNCHANGED <<args, svn_branch, env_branch, git_branch, opt_branch, svn_timestamp,
                   git_timestamp, tfs_timestamp, tfs_result, requests, response,
                   stdout_token, revision_txt>>

\* The locals of guess_timestamp are gone once main has matched.
DropLocals ==
    /\ svn_timestamp' = None /\ git_timestamp' = None /\ tfs_timestamp' = None
    /\ tfs_result' = None /\ response' = None

\* main: the two panic! arms of the match on opt_branch and opt_timestamp.
ResolveFailed ==
    /\ pc = "match"
    /\ ~IsSome(opt_branch) \/ ~IsSome(opt_timestamp)
    /\ Step("exit", [Quiet EXCEPT !.panicked = TRUE],
            IF ~IsSome(opt_branch)
            THEN "Couldn't resolve the branch. Try manually passing the branch with --branch."
            ELSE "Couldn't resolve the timestamp.")
    /\ DropLocals
    /\ UNCHANGED <<args, svn_branch, env_branch, git_branch, opt_branch, opt_timestamp,
                   requests, stdout_token, revision_txt>>

\* format!("{}:{}", branch, timestamp)
Token(branch, timestamp) == branch \o ":" \o timestamp

\* What the file system can answer to File::create and write_all.
WriteOutcomes == {"written", "create_failed", "write_failed"}

\* App::write_revision_txt: file is the content of the file afterwards (None
\* when it was not created, empty when it was created and not written).
write_revision_txt(t, outcome) ==
    CASE outcome = "create_failed" -> [ok |-> FALSE, file |-> None]
      [] outcome = "write_failed" -> [ok |-> FALSE, file |-> Some("")]
      [] OTHER -> [ok |-> TRUE, file |-> Some("timestamp: " \o t)]

\* main's last arm, and output(): print the token, or write the file.
Output ==
    /\ pc = "match"
    /\ IsSome(opt_branch) /\ IsSome(opt_timestamp)
    /\ LET token == Token(Unwrap(opt_branch), Unwrap(opt_timestamp))
       IN  IF IsSome(args.revfile)
           THEN \E outcome \in WriteOutcomes :
                \E result \in {write_revision_txt(token, outcome)} :
                   /\ revision_txt' = result.file
                   /\ stdout_token' = stdout_token
                   /\ Step("exit", [Quiet EXCEPT !.panicked = ~result.ok],
                           "Could not write timestamp to file " \o Unwrap(args.revfile))
           ELSE /\ stdout_token' = Append(stdout_token, token)
                /\ revision_txt' = revision_txt
                /\ Step("exit", Quiet, "")
    /\ DropLocals
    /\ UNCHANGED <<args, svn_branch, env_branch, git_branch, opt_branch, opt_timestamp,
                   requests>>

Next ==
    \/ MainStart
    \/ BranchFromSvn
    \/ BranchFromEnvironment
    \/ GuessBranchFromGit
    \/ GuessBranchReturn
    \/ SvnTimestamp
    \/ GitHeadTimestamp
    \/ TfsTimestamp
    \/ GuessTimestampReturn
    \/ ResolveFailed
    \/ Output

Spec == Init /\ [][Next]_vars

-----------------------------------------------------------------------------
(* The functions of svn.rs, git.rs and tfs.rs called on their own          *)

\* How many path segments a URL has after its root.
MaxPathSegments == 3

PathSegments == {"trunk", "branches", "tags", "foo", "trunkate", "branching"}

\* The URL with the given path segments, with or without a final "/".
UrlOf(path, final_slash) ==
    SvnRoot \o [i \in 1..(2 * Len(path)) |-> IF i % 2 = 1 THEN "/" ELSE path[i \div 2]]
            \o (IF final_slash THEN <<"/">> ELSE <<>>)

Urls ==
    { UrlOf(path, final_slash) :
        path \in UNION {[1..n -> PathSegments] : n \in 0..MaxPathSegments},
        final_slash \in BOOLEAN }

\* How many lines a branch listing has.
MaxBranchLines == 3

\* The lines git branch prints: the marker of the current branch or the
\* indentation, then a branch name or the note of a detached HEAD.
LineMarkers == { <<"*", " ">>, <<" ", " ">>, <<>> }
LineContents ==
    { <<"master">>, <<"develop">>,
      <<"(", "HEAD detached", " at 6f9a90e36e6)">>,
      <<"(", "HEAD detached", " from origin/master)">> }
BranchLines == [marker : LineMarkers, content : LineContents]

BranchListings ==
    [lines : UNION {[1..n -> BranchLines] : n \in 0..MaxBranchLines},
     final_newline : BOOLEAN]

\* The text of a listing: its lines, with "\n" between them and, when the
\* listing has one, after the last.
RECURSIVE ListingText(_, _)
ListingText(lines, final_newline) ==
    IF lines = <<>> THEN <<>>
    ELSE Head(lines).marker \o Head(lines).content
         \o (IF Len(lines) > 1 \/ final_newline THEN <<"\n">> ELSE <<>>)
         \o ListingText(Tail(lines), final_newline)

\* Date strings: RFC 3339 ones with and without a fraction and an offset,
\* before 1970, with a seconds field of 60, and ones that are not RFC 3339.
DateStrings ==
    { <<"2019-08-06T14:13:34.879966Z">>, <<"2019-03-10T15:27:14.803Z">>,
      <<"2019-03-10T15:27:14.003Z">>, <<"2019-03-10T15:27:14.003-01:00">>,
      <<"2019-03-10T15:27:14.803-01:00">>, <<"2019-03-10T15:27:14+05:30">>,
      <<"1960-01-01T00:00:00Z">>, <<"1969-12-31T23:59:59.500Z">>,
      <<"2016-12-31T23:59:60.500Z">>, <<"1970-01-01T00:00:60.500Z">>,
      <<"yesterday">>, <<"2019-13-10T15:27:14Z">>, <<>> }

\* A call: the function, the text it is given, and what the text was made of.
Call(function, argument, made_of) ==
    [function |-> function, argument |-> argument, made_of |-> made_of]

Calls ==
    { Call("extract_branch_from_url", url, <<>>) : url \in Urls }
    \cup { Call("extract_single_branch",
                ListingText(listing.lines, listing.final_newline), listing.lines) :
            listing \in BranchListings }
    \cup { Call("parse_date", date_string, <<>>) : date_string \in DateStrings }

\* A call of one function: nothing of a run has happened.
CallInit ==
    /\ pc = "call"
    /\ \E call \in Calls : input = Some(call)
    /\ output = None
    /\ args = [verbose |-> FALSE, branch |-> None, revfile |-> None, tfs_pat |-> None]
    /\ svn_branch = None /\ env_branch = None /\ git_branch = None /\ opt_branch = None
    /\ svn_timestamp = None /\ git_timestamp = None /\ tfs_timestamp = None
    /\ opt_timestamp = None
    /\ tfs_result = None
    /\ ran = <<>> /\ lookups = <<>> /\ logged = <<>>
    /\ requests = <<>> /\ response = None
    /\ stdout_token = <<>> /\ revision_txt = None
    /\ panic = None

\* The function returns; a function that logs leaves its messages in logged.
Return(value, messages) ==
    /\ output' = Some(value)
    /\ logged' = messages
    /\ pc' = "returned"
    /\ UNCHANGED <<args, svn_branch, env_branch, git_branch, opt_branch, svn_timestamp,
                   git_timestamp, tfs_timestamp, opt_timestamp, tfs_result, ran, lookups,
                   requests, response, stdout_token, revision_txt, panic, input>>

CallExtractBranchFromUrl ==
    /\ pc = "call"
    /\ Unwrap(input).function = "extract_branch_from_url"
    /\ Return(extract_branch_from_url(Unwrap(input).argument), <<>>)

CallExtractSingleBranch ==
    /\ pc = "call"
    /\ Unwrap(input).function = "extract_single_branch"
    /\ \E r \in {extract_single_branch(Unwrap(input).argument)} :
          Return(r.ret, r.logged)

CallParseDate ==
    /\ pc = "call"
    /\ Unwrap(input).function = "parse_date"
    /\ Return(parse_date(Unwrap(input).argument), <<>>)

CallNext ==
    \/ CallExtractBranchFromUrl
    \/ CallExtractSingleBranch
    \/ CallParseDate

CallSpec == CallInit /\ [][CallNext]_vars


-----------------------------------------------------------------------------
(* Properties                                                               *)

\* The first present option of a sequence of options, or None.
FirstPresent(options) ==
    LET present == {i \in DOMAIN options : IsSome(options[i])}
    IN  IF present = {} THEN None
        ELSE options[CHOOSE i \in present : \A j \in present : i <= j]

GitRevParse == "git rev-parse --is-inside-work-tree"

\* The last step was the call of Tfs::timestamp.
TfsAsked == lookups # <<>> /\ lookups[1].name = "SYSTEM_TEAMPROJECTID"

\* ... and it found the three TFS variables set.
TfsApplicable ==
    TfsAsked /\ Len(lookups) >= 3 /\ \A i \in 1..3 : IsSome(lookups[i].answer)

\* The outcome of the TFS client: "Ok", a TfsError kind, or "" when
\* timestamp_or_error did not return.
TfsOutcome ==
    IF ~IsSome(tfs_result) THEN ""
    ELSE IF Unwrap(tfs_result).ok THEN "Ok"
    ELSE Unwrap(tfs_result).err.kind

\* C1 (as stated): a source is consulted only if every earlier source of the
\* resolution returned absence: the environment variables are looked up only
\* when SVN gave no branch, Git is run for a branch only when SVN and the
\* environment gave none, Git is run for a timestamp only when SVN gave none,
\* and the TFS variables are looked up and the HTTP request is sent only when
\* SVN and Git gave no timestamp.
C1_ConsultedOnlyAfterAbsence ==
    /\ (pc = "guess_branch_from_git" /\ lookups # <<>>) => ~IsSome(svn_branch)
    /\ (pc = "guess_branch_return" /\ ran # <<>>)
          => ~IsSome(svn_branch) /\ ~IsSome(env_branch)
    /\ (pc = "tfs_timestamp" /\ ran # <<>>) => ~IsSome(svn_timestamp)
    /\ (pc = "guess_timestamp_return" /\ (lookups # <<>> \/ requests # <<>>))
          => ~IsSome(svn_timestamp) /\ ~IsSome(git_timestamp)

\* C1 (amended): every source is consulted, in priority order, whatever the
\* earlier ones returned: once branch_from_svn has returned the fourteen
\* branch variables are all looked up and then Git is run; once the SVN
\* timestamp probe has returned Git is run and then Tfs::timestamp is called;
\* and whenever the TFS client gets past its token it sends its request, also
\* when SVN or Git gave a timestamp.
C1_EverySourceConsulted ==
    /\ pc = "guess_branch_from_git"
          => [i \in 1..Len(lookups) |-> lookups[i].name] = BranchVariables
    /\ pc = "guess_branch_return" => ran # <<>> /\ ran[1] = GitRevParse
    /\ pc = "tfs_timestamp" => ran # <<>> /\ ran[1] = GitRevParse
    /\ pc = "guess_timestamp_return" => TfsAsked
    /\ (pc = "guess_timestamp_return"
        /\ TfsOutcome \notin {"", "AccessTokenNotProvided"}) => Len(requests) = 1

\* C1 witness: the TFS request has been sent although SVN and Git both gave
\* a timestamp.
C1_Witness ==
    /\ pc = "guess_timestamp_return"
    /\ IsSome(svn_timestamp) /\ IsSome(git_timestamp)
    /\ Len(requests) = 1

\* C2: when guess_branch has returned, opt_branch is the first present of the
\* SVN branch, the environment branch and the Git branch, in this order; it
\* is None exactly when the three are; and it is never the Git branch when
\* SVN or the environment gave one.
C2_FirstPresentBranch ==
    (pc = "svn_timestamp" /\ ~IsSome(args.branch)) =>
        /\ opt_branch = FirstPresent(<<svn_branch, env_branch, git_branch>>)
        /\ (opt_branch = None) <=>
              (~IsSome(svn_branch) /\ ~IsSome(env_branch) /\ ~IsSome(git_branch))
        /\ (IsSome(svn_branch) \/ IsSome(env_branch))
              => opt_branch \in {svn_branch, env_branch} \ {None}

\* C2 witness: guess_branch returned the environment branch although Git
\* gave one too.
C2_Witness ==
    /\ pc = "svn_timestamp" /\ ~IsSome(args.branch)
    /\ ~IsSome(svn_branch) /\ IsSome(env_branch) /\ IsSome(git_branch)
    /\ opt_branch = env_branch

\* C3: when guess_timestamp has returned, opt_timestamp is the first present
\* of the SVN, Git and TFS timestamps, in this order; it is None exactly when
\* the three are; and it is never the TFS one when SVN or Git gave one.
C3_FirstPresentTimestamp ==
    pc = "match" =>
        /\ opt_timestamp = FirstPresent(<<svn_timestamp, git_timestamp, tfs_timestamp>>)
        /\ (opt_timestamp = None) <=>
              (~IsSome(svn_timestamp) /\ ~IsSome(git_timestamp) /\ ~IsSome(tfs_timestamp))
        /\ (IsSome(svn_timestamp) \/ IsSome(git_timestamp))
              => opt_timestamp \in {svn_timestamp, git_timestamp} \ {None}

\* C3 witness: guess_timestamp returned the Git timestamp although TFS gave
\* one too.
C3_Witness ==
    /\ pc = "match"
    /\ ~IsSome(svn_timestamp) /\ IsSome(git_timestamp) /\ IsSome(tfs_timestamp)
    /\ opt_timestamp = git_timestamp

\* The run got to main's match: every source had been tried.
ResolvePanics ==
    { Some("Couldn't resolve the branch. Try manually passing the branch with --branch."),
      Some("Couldn't resolve the timestamp.") }

\* The tokens the run has put out: printed, or in the revision file.
Emitted ==
    Len(stdout_token) + (IF IsSome(revision_txt) /\ revision_txt # Some("") THEN 1 ELSE 0)

\* C4 (as stated): a run fails exactly when every source has been tried and
\* the branch or the timestamp is absent; a run that does not fail emits
\* exactly one token "<branch>:<timestamp>", to stdout or to the revision
\* file, and a failed run emits nothing.
C4_FailsExactlyWhenUnresolved ==
    pc = "exit" =>
        /\ IsSome(panic) <=>
              (panic \in ResolvePanics /\ (~IsSome(opt_branch) \/ ~IsSome(opt_timestamp)))
        /\ ~IsSome(panic) =>
              /\ Emitted = 1
              /\ LET token == Token(Unwrap(opt_branch), Unwrap(opt_timestamp))
                 IN  IF IsSome(args.revfile)
                     THEN revision_txt = Some("timestamp: " \o token)
                     ELSE stdout_token = <<token>>
        /\ IsSome(panic) => Emitted = 0

\* C5: at most one HTTP request is sent in a run, whatever is answered.
C5_AtMostOneRequest == Len(requests) <= 1

\* C5 witness: the one request was answered by a redirect with a Location.
C5_Witness ==
    /\ Len(requests) = 1
    /\ IsSome(response)
    /\ Unwrap(response).kind = "response"
    /\ Unwrap(response).status = 302
    /\ Unwrap(response).location.present /\ Unwrap(response).location.ascii

\* The variables read through the accessor App::new builds.
TfsVariables ==
    <<"SYSTEM_TEAMPROJECTID", "BUILD_SOURCEVERSION", "SYSTEM_TEAMFOUNDATIONCOLLECTIONURI",
      "SYSTEM_ACCESSTOKEN">>

AppVariables ==
    {BranchVariables[i] : i \in DOMAIN BranchVariables}
    \cup {TfsVariables[i] : i \in DOMAIN TfsVariables}

\* Every string an environment answer can be logged as ("" for an unset one).
EnvStrings ==
    {""} \cup
    { Flatten(Unwrap(a)) :
        a \in ({BranchValue(i) : i \in DOMAIN BranchVariables}
               \cup TeamProjectValues \cup SourceVersionValues
               \cup CollectionUriValues \cup AccessTokenValues) \ {None} }

\* The log events that name a variable.
EventsNaming == [name \in AppVariables |-> {"$" \o name \o "=" \o value : value \in EnvStrings}]

AppLookups(name) ==
    {i \in DOMAIN lookups : lookups[i].name = name /\ lookups[i].accessor = "App"}

\* C6: in every step, each variable read through the App's accessor has as
\* many log events naming it as lookups (one per call, none without a lookup,
\* none twice), and every lookup, of a set variable or an unset one, has its
\* event "$name=value" with the value answered ("" when unset).
C6_OneEventPerLookup ==
    /\ \A name \in AppVariables :
          Cardinality(AppLookups(name))
              = Cardinality({i \in DOMAIN logged : logged[i] \in EventsNaming[name]})
    /\ \A i \in DOMAIN lookups :
          lookups[i].accessor = "App" =>
              \E j \in DOMAIN logged :
                  logged[j] = "$" \o lookups[i].name \o "="
                              \o (IF IsSome(lookups[i].answer)
                                  THEN Flatten(Unwrap(lookups[i].answer)) ELSE "")

\* C6 witness: the fourteen branch variables have been looked up, one of them
\* set and the others not, and the event of an unset one is in the log.
C6_Witness ==
    /\ pc = "guess_branch_from_git"
    /\ Len(lookups) = Len(BranchVariables)
    /\ IsSome(lookups[3].answer) /\ ~IsSome(lookups[1].answer)
    /\ \E j \in DOMAIN logged : logged[j] = "$BRANCH="
    /\ \E j \in DOMAIN logged : logged[j] = "$GIT_BRANCH=from-GIT_BRANCH"

\* C7 (as stated): once the three TFS variables are set, Tfs::timestamp
\* returns to guess_timestamp and the run goes on, whatever fails in the
\* client (an invalid URL included); a failure makes it return None with the
\* error logged.
C7_ClientFailureIsAbsence ==
    TfsApplicable =>
        /\ pc = "guess_timestamp_return"
        /\ panic = None
        /\ IsSome(tfs_result)
        /\ ~Unwrap(tfs_result).ok =>
              /\ tfs_timestamp = None
              /\ \E j \in DOMAIN logged : logged[j] = Display(Unwrap(tfs_result).err)

\* C8: when one of the three TFS variables is unset Tfs::timestamp returns
\* None with no TfsError made or logged, SYSTEM_ACCESSTOKEN not read and no
\* request sent; and a request is sent only when the three are set.
C8_InapplicableIsSilent ==
    /\ (TfsAsked /\ ~TfsApplicable) =>
          /\ pc = "guess_timestamp_return"
          /\ tfs_timestamp = None
          /\ tfs_result = None
          /\ requests = <<>>
          /\ AppLookups("SYSTEM_ACCESSTOKEN") = {}
          /\ ~IsSome(lookups[Len(lookups)].answer)
          /\ Len(logged) = Len(lookups) + 1
          /\ logged[Len(logged)] = "Found no TFVC timestamp"
    /\ (pc = "guess_timestamp_return" /\ requests # <<>>) => TfsApplicable

\* C8 witness: the third variable is the unset one, with a personal token
\* on the command line.
C8_Witness ==
    /\ pc = "guess_timestamp_return"
    /\ TfsAsked /\ Len(lookups) = 3
    /\ ~IsSome(lookups[3].answer)
    /\ IsSome(args.tfs_pat)
    /\ tfs_timestamp = None /\ requests = <<>>

\* C9 (as stated): with the three TFS variables set, a personal token gives a
\* Basic request with that token and SYSTEM_ACCESSTOKEN is not consulted;
\* without one a set SYSTEM_ACCESSTOKEN gives a Bearer request with its
\* value; without either the outcome is AccessTokenNotProvided and no request
\* is sent.
C9_TokenChoice ==
    TfsApplicable =>
        /\ IsSome(args.tfs_pat) =>
              /\ Len(requests) = 1
              /\ requests[1].authorization
                    = [scheme |-> "Basic", username |-> "", secret |-> Unwrap(args.tfs_pat)]
        /\ ~IsSome(args.tfs_pat) =>
              /\ Len(lookups) = 4 /\ lookups[4].name = "SYSTEM_ACCESSTOKEN"
              /\ IsSome(lookups[4].answer) =>
                    /\ Len(requests) = 1
                    /\ requests[1].authorization
                          = [scheme |-> "Bearer", username |-> "",
                             secret |-> Flatten(Unwrap(lookups[4].answer))]
              /\ ~IsSome(lookups[4].answer) =>
                    /\ TfsOutcome = "AccessTokenNotProvided"
                    /\ requests = <<>>

\* C10 (as stated): a response with status 302 and a Location header
\* containing "/_signin" is classified InvalidAccessToken; any other response
\* without a success status is RequestStatusNotSuccessful with the status and
\* the URL of the request; a response with a success status is neither, and
\* only for it is the body read and parsed.
C10_ClassifiedInOrder ==
    (pc = "guess_timestamp_return" /\ IsSome(response) /\ Unwrap(response).kind = "response") =>
        LET resp == Unwrap(response)
            signin == /\ resp.status = 302
                      /\ resp.location.present
                      /\ Contains(resp.location.text, "/_signin")
        IN  /\ signin => TfsOutcome = "InvalidAccessToken"
            /\ (~signin /\ ~is_success(resp.status)) =>
                  /\ TfsOutcome = "RequestStatusNotSuccessful"
                  /\ Unwrap(tfs_result).err.status = resp.status
                  /\ Unwrap(tfs_result).err.url = requests[1].url
            /\ is_success(resp.status) =>
                  TfsOutcome \in {"Ok", "CannotReadRequestBody", "JsonParseFailed",
                                  "DateStringCannotBeParsed"}

\* C11 (as stated): a response with a 5xx status is reported as
\* TfsInternalServerError, a response with any other status that is no
\* success and no sign-in redirect as OtherRequestError, and a transport
\* timeout as RequestTimedOut, so that the three are told apart by kind.
C11_ServerErrorsToldApart ==
    (pc = "guess_timestamp_return" /\ IsSome(response)) =>
        LET resp == Unwrap(response)
        IN  /\ (resp.kind = "response" /\ is_server_error(resp.status))
                  => TfsOutcome = "TfsInternalServerError"
            /\ (resp.kind = "response" /\ ~is_success(resp.status)
                /\ ~is_server_error(resp.status) /\ ~is_tfs_signin_redirect(resp))
                  => TfsOutcome = "OtherRequestError"
            /\ (resp.kind = "error" /\ resp.timeout) => TfsOutcome = "RequestTimedOut"

\* C12: when branch_from_environment has returned, it has read the fourteen
\* variables of its list in the list's order and no other variable, and its
\* result is the value of the first of them that is set, None exactly when
\* none is set.
C12_FirstSetVariable ==
    pc = "guess_branch_from_git" =>
        /\ [i \in DOMAIN lookups |-> lookups[i].name] = BranchVariables
        /\ LET set == {i \in DOMAIN lookups : IsSome(lookups[i].answer)}
               first == CHOOSE i \in set : \A j \in set : i <= j
           IN  /\ set = {} <=> env_branch = None
               /\ set # {} => env_branch = Some(Flatten(Unwrap(lookups[first].answer)))

\* C12 witness: BRANCH and branch are not set, GIT_BRANCH and a later
\* variable are, and the result is the value of GIT_BRANCH.
C12_Witness ==
    /\ pc = "guess_branch_from_git"
    /\ Len(lookups) = Len(BranchVariables)
    /\ ~IsSome(lookups[1].answer) /\ ~IsSome(lookups[2].answer)
    /\ IsSome(lookups[3].answer)
    /\ \E i \in 4..Len(lookups) : IsSome(lookups[i].answer)
    /\ env_branch = Some("from-GIT_BRANCH")

\* The function the call was of has returned.
Returned(function) ==
    pc = "returned" /\ Unwrap(input).function = function

\* The positions of a URL where a pair /branches/<name> or /tags/<name>
\* starts, and those where a segment trunk starts.
BranchPairs(url) == {i \in DOMAIN url : MatchBranchAt(url, i)}
TrunkSegments(url) == {i \in DOMAIN url : MatchTrunkAt(url, i)}

\* C13 (as stated): extract_branch_from_url returns the name of a
\* /branches/<name> or /tags/<name> pair whenever the URL has one, also when
\* it has a trunk segment elsewhere; "trunk" when it has a segment trunk and no
\* such pair; and None for every other URL.
C13_BranchBeforeTrunk ==
    Returned("extract_branch_from_url") =>
        LET url == Unwrap(input).argument
            branch == Unwrap(output)
        IN  IF BranchPairs(url) # {}
            THEN \E i \in BranchPairs(url) : branch = Some(SegmentFrom(url, i + 3))
            ELSE IF TrunkSegments(url) # {} THEN branch = Some("trunk")
            ELSE branch = None

\* The branch names of a listing: the contents of its lines that are no
\* note of a detached HEAD, in their order.
ListedNames(lines) ==
    LET named == SelectSeq(lines, LAMBDA line : ~Contains(line.content, "HEAD detached"))
    IN  [i \in 1..Len(named) |-> Flatten(named[i].content)]

EpochMillis(literal) ==
    CASE literal = "2019-08-06T14:13:34.879966Z" -> Some("1565100814879")
      [] literal = "2019-03-10T15:27:14.803Z" -> Some("1552231634803")
      [] literal = "2019-03-10T15:27:14.003Z" -> Some("1552231634003")
      [] literal = "2019-03-10T15:27:14.003-01:00" -> Some("1552235234003")
      [] literal = "2019-03-10T15:27:14.803-01:00" -> Some("1552235234803")
      [] literal = "2019-03-10T15:27:14+05:30" -> Some("1552211834000")
      [] literal = "1960-01-01T00:00:00Z" -> Some("-315619200000")
      [] literal = "1969-12-31T23:59:59.500Z" -> Some("-500")
      [] literal = "2016-12-31T23:59:60.500Z" -> Some("1483228800500")
      [] literal = "1970-01-01T00:00:60.500Z" -> Some("60500")
      [] OTHER -> None

\* C15 (as stated): for every RFC 3339 string parse_date returns the decimal
\* string of the epoch milliseconds of its instant, and for every other
\* string DateStringCannotBeParsed with the string.
C15_EpochMillis ==
    Returned("parse_date") =>
        LET literal == Flatten(Unwrap(input).argument)
            result == Unwrap(output)
        IN  IF IsSome(EpochMillis(literal))
            THEN result.ok /\ result.val = Unwrap(EpochMillis(literal))
            ELSE /\ ~result.ok
                 /\ result.err.kind = "DateStringCannotBeParsed"
                 /\ result.err.detail = literal

\* The branch the value of SVN_URL gives, when the last step read it.
SvnUrlBranch ==
    IF lookups # <<>> /\ lookups[1].name = "SVN_URL" /\ IsSome(lookups[1].answer)
    THEN extract_branch_from_url(Unwrap(lookups[1].answer))
    ELSE None

\* branch_from_svn has returned a branch that SVN_URL does not give: it is
\* the one Svn::branch returned.
SvnBranchFromWorkingCopy ==
    pc = "branch_from_environment" /\ IsSome(svn_branch) /\ svn_branch # SvnUrlBranch

\* C16 (as stated): SVN_URL is read only when Svn::branch returned None.
C16_SvnUrlOnlyAfterAbsence ==
    (pc = "branch_from_environment" /\ lookups # <<>>) => ~SvnBranchFromWorkingCopy

\* C16 (amended): whenever Svn::branch has returned, with a branch or
\* without, SVN_URL is read once, with std::env::var, and its lookup is
\* logged once.
C16_SvnUrlAlwaysRead ==
    pc = "branch_from_environment" =>
        /\ Len(lookups) = 1
        /\ lookups[1].name = "SVN_URL" /\ lookups[1].accessor = "std::env::var"
        /\ Cardinality({i \in DOMAIN logged :
                logged[i] = "$SVN_URL=" \o (IF IsSome(lookups[1].answer)
                                            THEN Flatten(Unwrap(lookups[1].answer))
                                            ELSE "")}) = 1

\* C16 witness: Svn::branch returned a branch, and SVN_URL, which is set, has
\* been read all the same.
C16_Witness ==
    /\ SvnBranchFromWorkingCopy
    /\ svn_branch = Some("foo")
    /\ Len(lookups) = 1 /\ lookups[1].name = "SVN_URL" /\ IsSome(lookups[1].answer)

GitLog == "git --no-pager log -n1 --format=%ct000"

\* C17 (as stated): when git log has printed the line "1565100814000" and a
\* newline, head_timestamp returns exactly "1565100814000"; and when is_git
\* does not hold it returns None and git log is not run.
C17_HeadTimestampIsDigits ==
    pc = "tfs_timestamp" =>
        /\ IsSome(git_timestamp) => git_timestamp = Some("1565100814000")
        /\ (\E i \in DOMAIN logged : logged[i] = "Current directory is not in git")
              => ran = <<GitRevParse>> /\ git_timestamp = None

\* The log messages that show a secret: the value of SYSTEM_ACCESSTOKEN or
\* the personal access token, alone or after the name of its variable.
SecretValues ==
    {Flatten(Unwrap(v)) : v \in AccessTokenValues \ {None}}
    \cup {Unwrap(t) : t \in {c.tfs_pat : c \in CommandLines} \ {None}}

MessagesShowingSecret ==
    SecretValues
    \cup {"$SYSTEM_ACCESSTOKEN=" \o secret : secret \in SecretValues}

\* C18 (as stated): no message passed to the logger, and none printed, shows
\* the value of SYSTEM_ACCESSTOKEN or the personal access token, and neither
\* does the emitted token.
C18_SecretsNotLogged ==
    /\ \A i \in DOMAIN logged : logged[i] \notin MessagesShowingSecret
    /\ \A i \in DOMAIN Printed : Printed[i] \notin MessagesShowingSecret
    /\ \A i \in DOMAIN stdout_token : stdout_token[i] \notin MessagesShowingSecret

\* The positions of a run inside guess_branch.
GuessBranchPositions ==
    {"branch_from_svn", "branch_from_environment", "guess_branch_from_git",
     "guess_branch_return"}

\* C19: with --branch, guess_branch is never entered (no branch source runs
\* a command or reads a variable), the branch of the run and of every token
\* it emits is the value passed, the timestamp is what guess_timestamp makes
\* of its three sources, and a run whose timestamp is absent fails and emits
\* nothing.
C19_BranchOptionOnlySetsBranch ==
    IsSome(args.branch) =>
        /\ pc \notin GuessBranchPositions
        /\ svn_branch = None /\ env_branch = None /\ git_branch = None
        /\ pc # "main" => opt_branch = args.branch
        /\ pc = "svn_timestamp" => ran = <<>> /\ lookups = <<>>
        /\ pc = "match" =>
              opt_timestamp = guess_timestamp(svn_timestamp, git_timestamp, tfs_timestamp)
        /\ \A i \in DOMAIN stdout_token :
              /\ IsSome(opt_timestamp)
              /\ stdout_token[i] = Token(Unwrap(args.branch), Unwrap(opt_timestamp))
        /\ IsSome(revision_txt) /\ revision_txt # Some("") =>
              /\ IsSome(opt_timestamp)
              /\ revision_txt
                    = Some("timestamp: " \o Token(Unwrap(args.branch), Unwrap(opt_timestamp)))
        /\ pc = "exit" /\ ~IsSome(opt_timestamp) =>
              /\ IsSome(panic)
              /\ Emitted = 0

\* A run with --branch release has printed its token, the timestamp being
\* the one of Git.
C19_Witness ==
    /\ pc = "exit"
    /\ args.branch = Some("release")
    /\ ~IsSome(panic)
    /\ Len(stdout_token) = 1
    /\ opt_branch = Some("release")
    /\ IsSome(opt_timestamp)

====
